---------------------------- MODULE Spec2Model ----------------------------
(***************************************************************************)
(* ghostmail-cli: a one-shot command line process.  One run of the binary  *)
(* executes one cobra command (send, inbox, read, reply, config example,   *)
(* config check) against the process environment, the file system, an IMAP *)
(* server and an SMTP server, and leaves behind what it wrote to stdout    *)
(* and stderr, its exit code, the library calls it made and the messages   *)
(* it handed to the SMTP dialer.                                           *)
(*                                                                         *)
(* Go strings are modelled as sequences of one-character strings, so that  *)
(* strings.Split, strings.TrimRight, strings.ToLower, strings.LastIndex    *)
(* and slicing are computed as the code computes them.  Error messages,    *)
(* which the code only builds and prints, are TLA+ strings.                *)
(***************************************************************************)
EXTENDS Integers, Sequences, FiniteSets, TLC

VARIABLES
    pc,          \* "start" before the command ran, "exited" after
    cmd,         \* the command that ran ("none" before)
    jsonOutput,  \* root.go: --json
    noColor,     \* root.go: --no-color
    verbose,     \* root.go: --verbose
    args,        \* the command's own flags
    env,         \* the GHOSTMAIL_* environment variables
    stdout,      \* what the process wrote to standard output, in order
    stderr,      \* what the process wrote to standard error, in order
    exitCode,    \* -1 while running, then the process exit status
    calls,       \* library / system calls made, in order
    outbox,      \* messages handed to gomail's DialAndSend
    server,      \* what the IMAP / SMTP side answered during this run
    fetched,     \* result of Reader.ListMessages / Reader.ReadMessage
    plan,        \* a fetch in progress: buffer size, messages the server sends, its error
    messagesCh,  \* the buffered channel messages: what is in its buffer
    closed,      \* whether the messages channel is closed
    doneCh,      \* the buffered channel done: what is in its buffer
    producer,    \* where the goroutine running c.UidFetch is
    consumer,    \* where the function that started the fetch is
    nsent,       \* how many messages UidFetch has sent
    received,    \* the messages the range loop has received, in order
    doneReads,   \* how many values were received from done
    returned,    \* what the operation returned
    previewCall  \* a call of createPreview: its arguments and, once made, its result

cliVars == <<pc, cmd, jsonOutput, noColor, verbose, args, env, stdout, stderr,
             exitCode, calls, outbox, server, fetched>>

fetchVars == <<plan, messagesCh, closed, doneCh, producer, consumer, nsent, received,
               doneReads, returned>>

vars == <<pc, cmd, jsonOutput, noColor, verbose, args, env, stdout, stderr,
          exitCode, calls, outbox, server, fetched, plan, messagesCh, closed, doneCh,
          producer, consumer, nsent, received, doneReads, returned,
         previewCall>>

---------------------------------------------------------------------------
(* Bounds of the model *)

MaxAttachArgs == 6   \* --attach occurrences tried (one more than the limit)
MaxRcpt       == 2   \* To plus Cc addresses of a fetched message
MaxBodyLen    == 2   \* characters of a fetched message's body
MaxMsgs       == 3   \* messages in the mailbox
MaxPwLen      == 5   \* characters of a password
MaxFetch      == 12  \* messages one UID FETCH delivers (more than a buffer holds)
MaxPreviewBody == 4   \* characters of a body handed to createPreview
MaxPreviewLen  == 4   \* largest maxLen handed to createPreview

---------------------------------------------------------------------------
(* Go string helpers (package strings), on sequences of characters *)

Min(a, b) == IF a < b THEN a ELSE b

Max(a, b) == IF a < b THEN b ELSE a

NL == "\n"

LowerCh(c) ==
    CASE c = "A" -> "a"
      [] c = "B" -> "b"
      [] c = "M" -> "m"
      [] c = "R" -> "r"
      [] c = "E" -> "e"
      [] OTHER   -> c

ToLower(s) == [i \in 1..Len(s) |-> LowerCh(s[i])]

\* strings.LastIndex for a one-byte separator; 0 stands for Go's -1,
\* position i for Go's index i-1.
LastIndex(s, c) ==
    LET hits == {i \in 1..Len(s) : s[i] = c}
    IN  IF hits = {} THEN 0 ELSE CHOOSE i \in hits : \A j \in hits : j <= i

HasPrefix(s, p) == Len(s) >= Len(p) /\ SubSeq(s, 1, Len(p)) = p

\* strings.Split(s, "\n"): always at least one element
RECURSIVE Split(_)
Split(s) ==
    LET hits == {i \in 1..Len(s) : s[i] = NL}
    IN  IF hits = {} THEN <<s>>
        ELSE LET k == CHOOSE i \in hits : \A j \in hits : i <= j
             IN  <<SubSeq(s, 1, k - 1)>> \o Split(SubSeq(s, k + 1, Len(s)))

\* strings.TrimRight(s, "\n")
RECURSIVE TrimRight(_)
TrimRight(s) ==
    IF s # <<>> /\ s[Len(s)] = NL THEN TrimRight(SubSeq(s, 1, Len(s) - 1))
    ELSE s

\* strings.Join(list, sep) with sep a string
RECURSIVE Join(_, _)
Join(list, sep) ==
    IF list = <<>> THEN <<>>
    ELSE IF Len(list) = 1 THEN list[1]
    ELSE list[1] \o sep \o Join(Tail(list), sep)

\* all sequences over S of length at most n
RECURSIVE SeqsUpTo(_, _)
SeqsUpTo(S, n) ==
    IF n = 0 THEN {<<>>}
    ELSE LET shorter == SeqsUpTo(S, n - 1)
         IN  shorter \cup {Append(s, x) : s \in {t \in shorter : Len(t) = n - 1}, x \in S}

---------------------------------------------------------------------------
(* internal/config: environment variables and validation *)

EnvVars ==
    {"GHOSTMAIL_SMTP_HOST", "GHOSTMAIL_SMTP_PORT", "GHOSTMAIL_SMTP_USERNAME",
     "GHOSTMAIL_SMTP_PASSWORD", "GHOSTMAIL_SMTP_FROM",
     "GHOSTMAIL_IMAP_HOST", "GHOSTMAIL_IMAP_PORT", "GHOSTMAIL_IMAP_USERNAME",
     "GHOSTMAIL_IMAP_PASSWORD", "GHOSTMAIL_IMAP_MAILBOX"}

\* a value for every variable, as `ghostmail config example` suggests
EnvFull ==
    [v \in EnvVars |->
        CASE v = "GHOSTMAIL_SMTP_HOST"     -> <<"h">>
          [] v = "GHOSTMAIL_SMTP_PORT"     -> <<"5", "8", "7">>
          [] v = "GHOSTMAIL_SMTP_USERNAME" -> <<"m", "@", "x">>
          [] v = "GHOSTMAIL_SMTP_PASSWORD" -> <<"s", "e", "c", "r", "e", "t">>
          [] v = "GHOSTMAIL_SMTP_FROM"     -> <<"m", "@", "x">>
          [] v = "GHOSTMAIL_IMAP_HOST"     -> <<"i">>
          [] v = "GHOSTMAIL_IMAP_PORT"     -> <<"9", "9", "3">>
          [] v = "GHOSTMAIL_IMAP_USERNAME" -> <<"m", "@", "x">>
          [] v = "GHOSTMAIL_IMAP_PASSWORD" -> <<"p", "w">>
          [] OTHER                         -> <<"I", "N", "B", "O", "X">>]

EnvWithout(unset) == [v \in EnvVars |-> IF v \in unset THEN <<>> ELSE EnvFull[v]]

EnvEmpty == EnvWithout(EnvVars)

\* os.Getenv: an unset variable reads as ""
Getenv(e, key) == e[key]

getEnv(e, key, defaultValue) ==
    IF Getenv(e, key) # <<>> THEN Getenv(e, key) ELSE defaultValue

\* config.Load; ports and TLS switches play no part in validation and are
\* passed to the libraries untouched
Load(e) ==
    [SMTP |-> [Host     |-> getEnv(e, "GHOSTMAIL_SMTP_HOST", <<>>),
               Username |-> getEnv(e, "GHOSTMAIL_SMTP_USERNAME", <<>>),
               Password |-> getEnv(e, "GHOSTMAIL_SMTP_PASSWORD", <<>>),
               From     |-> getEnv(e, "GHOSTMAIL_SMTP_FROM", <<>>)],
     IMAP |-> [Host     |-> getEnv(e, "GHOSTMAIL_IMAP_HOST", <<>>),
               Username |-> getEnv(e, "GHOSTMAIL_IMAP_USERNAME", <<>>),
               Password |-> getEnv(e, "GHOSTMAIL_IMAP_PASSWORD", <<>>),
               Mailbox  |-> getEnv(e, "GHOSTMAIL_IMAP_MAILBOX",
                                   <<"I", "N", "B", "O", "X">>)]]

NoErr == ""

\* Config.ValidateSMTP: the error message, or NoErr
ValidateSMTP(c) ==
    IF c.SMTP.Host = <<>> THEN "SMTP host is required (set GHOSTMAIL_SMTP_HOST)"
    ELSE IF c.SMTP.Username = <<>> THEN "SMTP username is required (set GHOSTMAIL_SMTP_USERNAME)"
    ELSE IF c.SMTP.Password = <<>> THEN "SMTP password is required (set GHOSTMAIL_SMTP_PASSWORD)"
    ELSE NoErr

\* Config.ValidateIMAP: the error message, or NoErr
ValidateIMAP(c) ==
    IF c.IMAP.Host = <<>> THEN "IMAP host is required (set GHOSTMAIL_IMAP_HOST)"
    ELSE IF c.IMAP.Username = <<>> THEN "IMAP username is required (set GHOSTMAIL_IMAP_USERNAME)"
    ELSE IF c.IMAP.Password = <<>> THEN "IMAP password is required (set GHOSTMAIL_IMAP_PASSWORD)"
    ELSE NoErr

UseHelp == ". Use --help for usage info"

---------------------------------------------------------------------------
(* internal/output and the way a command ends *)

\* a JSON document {"success": false, "error": msg}
JSONError(msg) == [fmt |-> "json", success |-> FALSE, error |-> msg]

\* a JSON success response (SendResponse, InboxResponse, ReadResponse)
JSONResponse(data) == [fmt |-> "json", success |-> TRUE, data |-> data]

\* a line of plain text (fmt.Println, color.Green, tabwriter rows, cobra)
Text(line) == [fmt |-> "text", text |-> line]

\* output.PrintErrorMsg: the stream it writes to and what it writes
PrintErrorMsg(msg) == [stream |-> "stderr", doc |-> JSONError(msg)]

\* what cobra and main do with an error returned from RunE, or with a
\* missing required flag: "Error: ..." and the usage on stderr, exit status 1
CobraError(msg) ==
    [stdout |-> <<>>, stderr |-> <<Text("Error: " \o msg), Text("usage")>>, exitCode |-> 1]

\* cli.handleError: with --json print the error document and os.Exit(1),
\* otherwise return the error to cobra
handleError(json, msg) ==
    IF json
    THEN LET p == PrintErrorMsg(msg)
         IN  [stdout   |-> IF p.stream = "stdout" THEN <<p.doc>> ELSE <<>>,
              stderr   |-> IF p.stream = "stderr" THEN <<p.doc>> ELSE <<>>,
              exitCode |-> 1]
    ELSE CobraError(msg)

\* a Go panic that nothing recovers: the runtime prints it, exit status 2
GoPanic(msg) ==
    [stdout |-> <<>>, stderr |-> <<Text("panic: " \o msg)>>, exitCode |-> 2]

\* RunE returned nil after writing out
Success(out) == [stdout |-> out, stderr |-> <<>>, exitCode |-> 0]

---------------------------------------------------------------------------
(* the file system the process sees: os.ReadFile and os.Stat *)

maxAttachments == 5

maxFileSize == 10 * 1024 * 1024

\* path -> size in bytes and content; a path outside the domain does not exist
Files ==
    [p \in {"small.txt", "exact.bin", "big.bin", "body.txt", "empty.txt", "page.html"} |->
        CASE p = "small.txt"  -> [size |-> 1, data |-> <<"x">>]
          [] p = "exact.bin"  -> [size |-> maxFileSize, data |-> <<>>]
          [] p = "big.bin"    -> [size |-> maxFileSize + 1, data |-> <<>>]
          [] p = "body.txt"   -> [size |-> 2, data |-> <<"y", NL>>]
          [] p = "empty.txt"  -> [size |-> 0, data |-> <<>>]
          [] OTHER            -> [size |-> 3, data |-> <<"<", "p", ">">>]]

Exists(path) == path \in DOMAIN Files

---------------------------------------------------------------------------
(* cobra flag parsing: each command registers its flags with a long name,  *)
(* an optional one-letter shorthand and a kind; the command line is a      *)
(* sequence of (flag token, value) pairs                                   *)

Flag(name, short, kind, default) ==
    [name |-> name, short |-> short, kind |-> kind, default |-> default]

\* root.go: persistent flags, available to every command
PersistentFlags ==
    {Flag("json", "j", "bool", FALSE),
     Flag("no-color", "", "bool", FALSE),
     Flag("verbose", "v", "bool", FALSE)}

\* one occurrence of a flag on the command line: dash is "-" for a
\* shorthand and "--" for a long name
Arg(dash, name, value) == [dash |-> dash, name |-> name, value |-> value]

Lookup(table, a) ==
    {f \in table : IF a.dash = "--" THEN f.name = a.name
                   ELSE f.short # "" /\ f.short = a.name}

Defaults(table) ==
    [n \in {f.name : f \in table} |-> (CHOOSE f \in table : f.name = n).default]

\* pflag's FlagSet.Parse: string arrays accumulate, other kinds overwrite;
\* an unknown flag stops parsing with an error
RECURSIVE ParseFlags(_, _, _)
ParseFlags(table, argv, acc) ==
    IF argv = <<>> THEN acc
    ELSE LET a    == Head(argv)
             defs == Lookup(table, a)
         IN  IF defs = {} THEN [acc EXCEPT !.err = "unknown flag: " \o a.dash \o a.name]
             ELSE LET f == CHOOSE d \in defs : TRUE
                      v == IF f.kind = "stringArray"
                           THEN (IF f.name \in acc.changed THEN acc.values[f.name] ELSE <<>>)
                                \o <<a.value>>
                           ELSE a.value
                  IN  ParseFlags(table, Tail(argv),
                                 [acc EXCEPT !.values[f.name] = v,
                                             !.changed = @ \cup {f.name}])

\* table: the command's flags and the persistent ones; defaults: their
\* default values
Parse(table, defaults, argv) ==
    ParseFlags(table, argv, [values |-> defaults, changed |-> {}, err |-> NoErr])

\* cobra's check of flags marked with MarkFlagRequired, made before RunE
RequiredMissing(parsed, required) == required \ parsed.changed

---------------------------------------------------------------------------
(* internal/email: Sender *)

Nil == [nil |-> TRUE]

\* the zero sendOptions value
NoOptions ==
    [cc |-> <<>>, bcc |-> <<>>, htmlBody |-> <<>>, attachments |-> <<>>,
     inReplyTo |-> <<>>, references |-> <<>>]

WithCC(cc) == [field |-> "cc", value |-> cc]

WithBCC(bcc) == [field |-> "bcc", value |-> bcc]

WithHTMLBody(html) == [field |-> "htmlBody", value |-> html]

WithAttachments(files) == [field |-> "attachments", value |-> files]

WithInReplyTo(messageID) == [field |-> "inReplyTo", value |-> messageID]

WithReferences(refs) == [field |-> "references", value |-> refs]

\* for _, opt := range opts { opt(options) }
RECURSIVE ApplyOptions(_, _)
ApplyOptions(opts, o) ==
    IF opts = <<>> THEN o
    ELSE ApplyOptions(Tail(opts), [o EXCEPT ![Head(opts).field] = Head(opts).value])

\* gomail: m.SetHeader(key, value...)
SetHeader(m, key, value) ==
    [m EXCEPT !.headers = [k \in DOMAIN m.headers \cup {key} |->
                               IF k = key THEN value ELSE m.headers[k]]]

NewMessage == [headers |-> [k \in {} |-> <<>>], parts |-> <<>>, attachments |-> <<>>]

\* if cond { m.SetHeader(key, value...) }
SetHeaderIf(m, cond, key, value) == IF cond THEN SetHeader(m, key, value) ELSE m

\* Sender.Send up to the dialer: the gomail message it builds
BuildMessage(smtp, to, subject, body, options) ==
    LET from == IF smtp.From = <<>> THEN smtp.Username ELSE smtp.From
        m1 == SetHeader(SetHeader(SetHeader(NewMessage, "From", from), "To", to),
                        "Subject", subject)
        m2 == SetHeaderIf(m1, Len(options.cc) > 0, "Cc", options.cc)
        m3 == SetHeaderIf(m2, Len(options.bcc) > 0, "Bcc", options.bcc)
        m4 == SetHeaderIf(m3, options.inReplyTo # <<>>, "In-Reply-To", options.inReplyTo)
        m5 == SetHeaderIf(m4, Len(options.references) > 0, "References", options.references)
        parts == IF options.htmlBody # <<>>
                 THEN <<[ctype |-> "text/html", content |-> options.htmlBody]>>
                      \o (IF body # <<>>
                          THEN <<[ctype |-> "text/plain", content |-> body]>>
                          ELSE <<>>)
                 ELSE <<[ctype |-> "text/plain", content |-> body]>>
    IN  [m5 EXCEPT !.parts = parts, !.attachments = options.attachments]

Call(op, arg) == [op |-> op, arg |-> arg]

\* d.DialAndSend(m): smtpOK is whether the server accepts the dial and the
\* message
DialAndSend(m, smtpOK) ==
    [err   |-> IF smtpOK THEN NoErr ELSE "failed to send email: smtp error",
     calls |-> <<Call("gomail.DialAndSend", m)>>,
     msg   |-> m]

\* Sender.Send: smtpOK is whether the server accepts the dial and the message
Send(smtp, to, subject, body, opts, smtpOK) ==
    IF Len(to) = 0
    THEN [err |-> "at least one recipient is required", calls |-> <<>>, msg |-> Nil]
    ELSE DialAndSend(BuildMessage(smtp, to, subject, body, ApplyOptions(opts, NoOptions)),
                     smtpOK)

---------------------------------------------------------------------------
(* internal/email: Reader *)

IMAPError == "imap error"

\* Reader.formatAddress
formatAddress(addr) ==
    IF addr = Nil THEN <<>>
    ELSE IF addr.PersonalName # <<>>
    THEN addr.PersonalName \o <<" ", "<">> \o addr.MailboxName \o <<"@">> \o addr.HostName
         \o <<">">>
    ELSE addr.MailboxName \o <<"@">> \o addr.HostName

\* Reader.convertMessage (the envelope is always requested and present)
convertMessage(msg) ==
    [UID         |-> msg.Uid,
     SeqNum      |-> msg.SeqNum,
     Flags       |-> msg.Flags,
     Subject     |-> msg.Envelope.Subject,
     Date        |-> msg.Envelope.Date,
     From        |-> IF Len(msg.Envelope.From) > 0
                     THEN formatAddress(msg.Envelope.From[1]) ELSE <<>>,
     To          |-> [i \in 1..Len(msg.Envelope.To) |-> formatAddress(msg.Envelope.To[i])],
     CC          |-> [i \in 1..Len(msg.Envelope.Cc) |-> formatAddress(msg.Envelope.Cc[i])],
     BCC         |-> [i \in 1..Len(msg.Envelope.Bcc) |-> formatAddress(msg.Envelope.Bcc[i])],
     MessageID   |-> <<>>,
     Body        |-> <<>>,
     BodyPreview |-> <<>>]

IsSpace(c) == c \in {" ", NL, "\t", "\r"}

\* strings.TrimSpace
RECURSIVE TrimSpace(_)
TrimSpace(s) ==
    IF s = <<>> THEN s
    ELSE IF IsSpace(s[1]) THEN TrimSpace(Tail(s))
    ELSE IF IsSpace(s[Len(s)]) THEN TrimSpace(SubSeq(s, 1, Len(s) - 1))
    ELSE s

\* the slice expression line[:n]: a run-time panic when n is out of range
SliceTo(line, n) ==
    IF n < 0 \/ n > Len(line) THEN [panic |-> TRUE, text |-> <<>>]
    ELSE [panic |-> FALSE, text |-> SubSeq(line, 1, n)]

\* the loop of Reader.createPreview over the remaining lines
RECURSIVE previewLines(_, _, _, _)
previewLines(lines, preview, currentLen, maxLen) ==
    IF lines = <<>> THEN [panic |-> FALSE, preview |-> preview]
    ELSE LET line == TrimSpace(Head(lines))
         IN  IF line = <<>> THEN previewLines(Tail(lines), preview, currentLen, maxLen)
             ELSE IF currentLen + Len(line) > maxLen
             THEN (IF maxLen - currentLen > 0
                   THEN [panic |-> SliceTo(line, maxLen - currentLen).panic,
                         preview |-> Append(preview, SliceTo(line, maxLen - currentLen).text)]
                   ELSE [panic |-> FALSE, preview |-> preview])
             ELSE previewLines(Tail(lines), Append(preview, line),
                               currentLen + Len(line) + 1, maxLen)

\* the last statements of Reader.createPreview, on the lines the loop kept
previewResult(body, maxLen, kept) ==
    IF kept.panic THEN [panic |-> TRUE, text |-> <<>>]
    ELSE [panic |-> FALSE,
          text  |-> IF Len(body) > maxLen
                    THEN Join(kept.preview, <<" ">>) \o <<".", ".", ".">>
                    ELSE Join(kept.preview, <<" ">>)]

\* a preview that keeps every line, whatever maxLen is
createPreview_Untruncated(body, maxLen) ==
    previewResult(body, maxLen, previewLines(Split(body), <<>>, 0, Len(body)))

\* Reader.createPreview
createPreview(body, maxLen) ==
    previewResult(body, maxLen, previewLines(Split(body), <<>>, 0, maxLen))

\* Reader.stripHTML: its first statement compiles a pattern with the
\* back-reference \1, which Go's regexp rejects, so MustCompile panics
stripHTML(html) == [panic |-> TRUE, text |-> <<>>]

\* the values textBody and htmlBody hold after the part loop of extractBody
RECURSIVE lastPart(_, _)
lastPart(parts, ctype) ==
    IF parts = <<>> THEN <<>>
    ELSE LET p == parts[Len(parts)]
         IN  IF p.header = "inline" /\ p.ctype = ctype THEN p.data
             ELSE lastPart(SubSeq(parts, 1, Len(parts) - 1), ctype)

\* Reader.extractBody on the fetched body section
extractBody(section) ==
    IF ~section.readerOK
    THEN IF section.rawErr # NoErr
         THEN [body |-> <<>>, messageID |-> <<>>, err |-> section.rawErr, panic |-> FALSE]
         ELSE [body |-> section.raw, messageID |-> <<>>, err |-> NoErr, panic |-> FALSE]
    ELSE LET textBody == lastPart(section.parts, "text/plain")
             htmlBody == lastPart(section.parts, "text/html")
         IN  IF textBody # <<>>
             THEN [body |-> textBody, messageID |-> section.messageID, err |-> NoErr,
                   panic |-> FALSE]
             ELSE IF htmlBody # <<>>
             THEN [body |-> stripHTML(htmlBody).text, messageID |-> section.messageID,
                   err |-> NoErr, panic |-> stripHTML(htmlBody).panic]
             ELSE [body |-> <<>>, messageID |-> section.messageID, err |-> NoErr,
                   panic |-> FALSE]

\* a Connect that dials a second time when the first dial fails
Connect_Redials(srv) ==
    IF srv.failAt = "dial"
    THEN [err |-> "failed to connect to IMAP server: " \o IMAPError,
          calls |-> <<Call("imap.Dial", <<>>), Call("imap.Dial", <<>>)>>]
    ELSE IF srv.failAt = "login"
    THEN [err |-> "failed to login: " \o IMAPError,
          calls |-> <<Call("imap.Dial", <<>>), Call("imap.Login", <<>>),
                      Call("imap.Logout", <<>>)>>]
    ELSE [err |-> NoErr, calls |-> <<Call("imap.Dial", <<>>), Call("imap.Login", <<>>)>>]

\* Reader.Connect against a server that fails the step srv.failAt
Connect(srv) ==
    IF srv.failAt = "dial"
    THEN [err |-> "failed to connect to IMAP server: " \o IMAPError,
          calls |-> <<Call("imap.Dial", <<>>)>>]
    ELSE IF srv.failAt = "login"
    THEN [err |-> "failed to login: " \o IMAPError,
          calls |-> <<Call("imap.Dial", <<>>), Call("imap.Login", <<>>),
                      Call("imap.Logout", <<>>)>>]
    ELSE [err |-> NoErr, calls |-> <<Call("imap.Dial", <<>>), Call("imap.Login", <<>>)>>]

\* the server's answer to UID SEARCH: the UIDs of the matching messages, in
\* mailbox order
RECURSIVE UidSearch(_, _)
UidSearch(mailbox, withoutSeen) ==
    IF mailbox = <<>> THEN <<>>
    ELSE LET m == Head(mailbox)
         IN  (IF withoutSeen /\ "\\Seen" \in m.Flags THEN <<>> ELSE <<m.Uid>>)
             \o UidSearch(Tail(mailbox), withoutSeen)

\* the server's answer to UID FETCH: the messages with the given UIDs
UidFetch(mailbox, uids) ==
    SelectSeq(mailbox, LAMBDA m : \E i \in 1..Len(uids) : uids[i] = m.Uid)

\* a search that never restricts to unread messages
searchCriteria_Unrestricted(unreadOnly) == [WithoutSeen |-> FALSE]

\* the search criteria ListMessages builds: WithoutFlags = [\Seen] or none
searchCriteria(unreadOnly) == [WithoutSeen |-> unreadOnly]

\* a limit step that keeps the first UIDs instead of the last
applyLimit_KeepFirst(uids, limit) ==
    IF limit > 0 /\ Len(uids) > limit THEN SubSeq(uids, 1, limit) ELSE uids

\* the limit step of ListMessages
applyLimit(uids, limit) ==
    IF limit > 0 /\ Len(uids) > limit
    THEN SubSeq(uids, Len(uids) - limit + 1, Len(uids))
    ELSE uids

Returned(result, err, made) == [result |-> result, err |-> err, calls |-> made, panic |-> FALSE]

\* Reader.ListMessages; the deferred Logout runs on every return after Connect
ListMessages(cfg, limit, unreadOnly, srv) ==
    LET conn     == Connect(srv)
        logout   == <<Call("imap.Logout", <<>>)>>
        selected == Append(conn.calls, Call("imap.Select", cfg.Mailbox))
        criteria == searchCriteria(unreadOnly)
        uids     == UidSearch(srv.mailbox, criteria.WithoutSeen)
        searched == Append(selected, Call("imap.UidSearch", criteria))
        wanted   == applyLimit(uids, limit)
        fetchedC == Append(searched, Call("imap.UidFetch", wanted))
        msgs     == UidFetch(srv.mailbox, wanted)
    IN  IF conn.err # NoErr THEN Returned(Nil, conn.err, conn.calls)
        ELSE IF srv.failAt = "select"
        THEN Returned(Nil, "failed to select mailbox: " \o IMAPError, selected \o logout)
        ELSE IF Len(srv.mailbox) = 0 THEN Returned(<<>>, NoErr, selected \o logout)
        ELSE IF srv.failAt = "search"
        THEN Returned(Nil, "failed to search messages: " \o IMAPError, searched \o logout)
        ELSE IF Len(uids) = 0 THEN Returned(<<>>, NoErr, searched \o logout)
        ELSE IF srv.failAt = "fetch"
        THEN Returned(Nil, "failed to fetch messages: " \o IMAPError, fetchedC \o logout)
        ELSE Returned([i \in 1..Len(msgs) |-> convertMessage(msgs[i])], NoErr,
                      fetchedC \o logout)

\* the assignments ReadMessage makes to emailMsg once extractBody returned x
withBody(emsg, x) ==
    IF x.panic THEN [emsg |-> emsg, panic |-> TRUE]
    ELSE IF x.err = NoErr
    THEN [emsg |-> [emsg EXCEPT !.Body = x.body, !.MessageID = x.messageID,
                                !.BodyPreview = createPreview(x.body, 200).text],
          panic |-> createPreview(x.body, 200).panic]
    ELSE [emsg |-> emsg, panic |-> FALSE]

\* the body of the receive loop of ReadMessage for one message
readOne(msg) ==
    IF msg.Section = Nil THEN [emsg |-> convertMessage(msg), panic |-> FALSE]
    ELSE withBody(convertMessage(msg), extractBody(msg.Section))

\* Reader.ReadMessage
ReadMessage(cfg, uid, srv) ==
    LET conn     == Connect(srv)
        logout   == <<Call("imap.Logout", <<>>)>>
        selected == Append(conn.calls, Call("imap.Select", cfg.Mailbox))
        fetchedC == Append(selected, Call("imap.UidFetch", <<uid>>))
        msgs     == IF srv.failAt = "fetch" THEN <<>> ELSE UidFetch(srv.mailbox, <<uid>>)
    IN  IF conn.err # NoErr THEN Returned(Nil, conn.err, conn.calls)
        ELSE IF srv.failAt = "select"
        THEN Returned(Nil, "failed to select mailbox: " \o IMAPError, selected \o logout)
        ELSE IF \E i \in 1..Len(msgs) : readOne(msgs[i]).panic
        THEN [result |-> Nil, err |-> NoErr, calls |-> fetchedC \o logout, panic |-> TRUE]
        ELSE IF srv.failAt = "fetch"
        THEN Returned(Nil, "failed to fetch message: " \o IMAPError, fetchedC \o logout)
        ELSE IF Len(msgs) = 0 THEN Returned(Nil, "message not found", fetchedC \o logout)
        ELSE Returned(readOne(msgs[Len(msgs)]).emsg, NoErr, fetchedC \o logout)

---------------------------------------------------------------------------
(* internal/cli/send.go *)

SendFlags ==
    PersistentFlags \cup
    {Flag("to", "t", "stringArray", <<>>),
     Flag("cc", "c", "stringArray", <<>>),
     Flag("bcc", "b", "stringArray", <<>>),
     Flag("subject", "s", "string", <<>>),
     Flag("body", "m", "string", <<>>),
     Flag("body-file", "", "string", ""),
     Flag("html-file", "", "string", ""),
     Flag("attach", "a", "stringArray", <<>>),
     Flag("in-reply-to", "", "string", <<>>)}

SendDefaults == Defaults(SendFlags)

SendRequired == {"to", "subject"}

\* what a command leaves behind: the process outcome, the calls it made,
\* the messages handed to the dialer and the data it fetched
Done(outcome, made, sentMsgs, got) ==
    [stdout |-> outcome.stdout, stderr |-> outcome.stderr, exitCode |-> outcome.exitCode,
     calls |-> made, outbox |-> sentMsgs, fetched |-> got]

\* checkAttachments with the size comparison off by one (>= for >)
RECURSIVE checkAttachments_SizeGeq(_, _)
checkAttachments_SizeGeq(atts, made) ==
    IF atts = <<>> THEN [err |-> NoErr, calls |-> made]
    ELSE LET att   == Head(atts)
             stat  == Append(made, [op |-> "os.Stat", arg |-> att])
         IN  IF ~Exists(att)
             THEN [err |-> "cannot access attachment " \o att \o ": no such file" \o UseHelp,
                   calls |-> stat]
             ELSE IF Files[att].size >= maxFileSize
             THEN [err |-> "attachment " \o att \o " is too large" \o UseHelp,
                   calls |-> stat]
             ELSE checkAttachments_SizeGeq(Tail(atts), stat)

\* the attachment loop of send: os.Stat each file in order, stop at the
\* first that cannot be accessed or is too large
RECURSIVE checkAttachments(_, _)
checkAttachments(atts, made) ==
    IF atts = <<>> THEN [err |-> NoErr, calls |-> made]
    ELSE LET att   == Head(atts)
             stat  == Append(made, Call("os.Stat", att))
         IN  IF ~Exists(att)
             THEN [err |-> "cannot access attachment " \o att \o ": no such file" \o UseHelp,
                   calls |-> stat]
             ELSE IF Files[att].size > maxFileSize
             THEN [err |-> "attachment " \o att \o " is too large" \o UseHelp,
                   calls |-> stat]
             ELSE checkAttachments(Tail(atts), stat)

\* requiredFields without the check of the two bodies
requiredFields_NoBodyCheck(to, subject, body, htmlBody) ==
    IF Len(to) = 0 THEN "at least one recipient (--to) is required" \o UseHelp
    ELSE IF subject = <<>> THEN "subject is required" \o UseHelp
    ELSE NoErr

\* the required-field validation of send: the error message, or NoErr
requiredFields(to, subject, body, htmlBody) ==
    IF Len(to) = 0 THEN "at least one recipient (--to) is required" \o UseHelp
    ELSE IF subject = <<>> THEN "subject is required" \o UseHelp
    ELSE IF body = <<>> /\ htmlBody = <<>>
    THEN "either --body or --html-file must be provided" \o UseHelp
    ELSE NoErr

\* the RunE function of newSendCmd; f are the parsed flag values
sendRunE(f, e, smtpOK) ==
    LET json     == f["json"]
        cfg      == Load(e)
        readBody == IF f["body-file"] # "" THEN <<Call("os.ReadFile", f["body-file"])>> ELSE <<>>
        body     == IF f["body-file"] # "" /\ Exists(f["body-file"])
                    THEN Files[f["body-file"]].data ELSE f["body"]
        readHTML == readBody \o
                    (IF f["html-file"] # "" THEN <<Call("os.ReadFile", f["html-file"])>> ELSE <<>>)
        htmlBody == IF f["html-file"] # "" /\ Exists(f["html-file"])
                    THEN Files[f["html-file"]].data ELSE <<>>
        atts     == checkAttachments(f["attach"], readHTML)
        opts     == <<WithCC(f["cc"]), WithBCC(f["bcc"]), WithAttachments(f["attach"])>>
                    \o (IF htmlBody # <<>> THEN <<WithHTMLBody(htmlBody)>> ELSE <<>>)
                    \o (IF f["in-reply-to"] # <<>>
                        THEN <<WithInReplyTo(f["in-reply-to"])>> ELSE <<>>)
        sent     == Send(cfg.SMTP, f["to"], f["subject"], body, opts, smtpOK)
        handed   == IF sent.calls = <<>> THEN <<>> ELSE <<sent.msg>>
    IN  IF ValidateSMTP(cfg) # NoErr
        THEN Done(handleError(json, ValidateSMTP(cfg)), <<>>, <<>>, Nil)
        ELSE IF f["body-file"] # "" /\ ~Exists(f["body-file"])
        THEN Done(handleError(json, "failed to read body file: no such file" \o UseHelp),
                  readBody, <<>>, Nil)
        ELSE IF f["html-file"] # "" /\ ~Exists(f["html-file"])
        THEN Done(handleError(json, "failed to read HTML file: no such file" \o UseHelp),
                  readHTML, <<>>, Nil)
        ELSE IF requiredFields(f["to"], f["subject"], body, htmlBody) # NoErr
        THEN Done(handleError(json, requiredFields(f["to"], f["subject"], body, htmlBody)),
                  readHTML, <<>>, Nil)
        ELSE IF Len(f["attach"]) > maxAttachments
        THEN Done(handleError(json, "too many attachments: maximum is 5" \o UseHelp),
                  readHTML, <<>>, Nil)
        ELSE IF atts.err # NoErr
        THEN Done(handleError(json, atts.err), atts.calls, <<>>, Nil)
        ELSE IF sent.err # NoErr
        THEN Done(handleError(json, sent.err), atts.calls \o sent.calls, handed, Nil)
        ELSE IF json
        THEN Done(Success(<<JSONResponse([message |-> "Email sent successfully"])>>),
                  atts.calls \o sent.calls, handed, Nil)
        ELSE IF ~f["no-color"]
        THEN Done(Success(<<Text("(green) Email sent successfully")>>),
                  atts.calls \o sent.calls, handed, Nil)
        ELSE Done(Success(<<Text("Email sent successfully")>>),
                  atts.calls \o sent.calls, handed, Nil)

---------------------------------------------------------------------------
(* internal/cli/inbox.go *)

InboxFlags ==
    PersistentFlags \cup
    {Flag("limit", "l", "int", 20),
     Flag("unread", "u", "bool", FALSE),
     Flag("mailbox", "m", "string", <<>>)}

InboxDefaults == Defaults(InboxFlags)

\* cli.truncate
truncate(str, maxLen) ==
    IF Len(str) <= maxLen THEN str
    ELSE SubSeq(str, 1, maxLen - 3) \o <<".", ".", ".">>

\* cli.isRead (strings.EqualFold with "\Seen")
isRead(flags) == \E fl \in flags : fl \in {"\\Seen", "\\seen", "\\SEEN"}

\* the IMAP configuration after the --mailbox override
withMailbox(imap, mailbox) ==
    IF mailbox # <<>> THEN [imap EXCEPT !.Mailbox = mailbox] ELSE imap

\* the table printed by inbox without --json
inboxTable(messages, plain) ==
    <<Text(<<"UID", "FROM", "SUBJECT", "DATE">>)>>
    \o [i \in 1..Len(messages) |->
           Text([uid     |-> messages[i].UID,
                 from    |-> truncate(messages[i].From, 25),
                 subject |-> truncate(messages[i].Subject, 40),
                 bold    |-> ~plain /\ ~isRead(messages[i].Flags)])]
    \o <<Text(<<"Total", Len(messages)>>)>>

\* the RunE function of newInboxCmd
inboxRunE(f, e, srv) ==
    LET json == f["json"]
        cfg  == Load(e)
        lm   == ListMessages(withMailbox(cfg.IMAP, f["mailbox"]), f["limit"], f["unread"], srv)
    IN  IF ValidateIMAP(cfg) # NoErr
        THEN Done(handleError(json, ValidateIMAP(cfg) \o UseHelp), <<>>, <<>>, Nil)
        ELSE IF lm.err # NoErr
        THEN Done(handleError(json, lm.err \o UseHelp), lm.calls, <<>>, Nil)
        ELSE IF json
        THEN Done(Success(<<JSONResponse([messages |-> lm.result, total |-> Len(lm.result)])>>),
                  lm.calls, <<>>, lm.result)
        ELSE IF Len(lm.result) = 0
        THEN Done(Success(<<Text(IF f["unread"] THEN "No unread messages" ELSE "No messages")>>),
                  lm.calls, <<>>, lm.result)
        ELSE Done(Success(inboxTable(lm.result, f["no-color"])), lm.calls, <<>>, lm.result)

---------------------------------------------------------------------------
(* internal/cli/read.go *)

ReadFlags ==
    PersistentFlags \cup
    {Flag("uid", "u", "uint32", 0),
     Flag("mailbox", "m", "string", <<>>),
     Flag("raw", "", "bool", FALSE)}

ReadDefaults == Defaults(ReadFlags)

ReadRequired == {"uid"}

\* what read prints without --json
readText(msg, raw) ==
    <<Text("----"), Text(<<"Subject", msg.Subject>>), Text(<<"From", msg.From>>),
      Text(<<"To", msg.To>>)>>
    \o (IF Len(msg.CC) > 0 THEN <<Text(<<"CC", msg.CC>>)>> ELSE <<>>)
    \o (IF Len(msg.BCC) > 0 THEN <<Text(<<"BCC", msg.BCC>>)>> ELSE <<>>)
    \o <<Text(<<"Date", msg.Date>>), Text(<<"UID", msg.UID>>), Text("----")>>
    \o (IF raw \/ msg.Body = <<>>
        THEN (IF msg.BodyPreview # <<>> THEN <<Text(msg.BodyPreview)>>
              ELSE <<Text("(No body content)")>>)
        ELSE <<Text(msg.Body)>>)
    \o <<Text("----")>>

\* the RunE function of newReadCmd
readRunE(f, e, srv) ==
    LET json == f["json"]
        cfg  == Load(e)
        rm   == ReadMessage(withMailbox(cfg.IMAP, f["mailbox"]), f["uid"], srv)
    IN  IF f["uid"] = 0
        THEN Done(handleError(json, "UID is required (use --uid)" \o UseHelp), <<>>, <<>>, Nil)
        ELSE IF ValidateIMAP(cfg) # NoErr
        THEN Done(handleError(json, ValidateIMAP(cfg) \o UseHelp), <<>>, <<>>, Nil)
        ELSE IF rm.panic
        THEN Done(GoPanic("regexp: Compile: invalid escape sequence"), rm.calls, <<>>, Nil)
        ELSE IF rm.err # NoErr
        THEN Done(handleError(json, rm.err \o UseHelp), rm.calls, <<>>, Nil)
        ELSE IF json
        THEN Done(Success(<<JSONResponse([message |-> rm.result])>>), rm.calls, <<>>, rm.result)
        ELSE Done(Success(readText(rm.result, f["raw"])), rm.calls, <<>>, rm.result)

---------------------------------------------------------------------------
(* internal/cli/reply.go *)

ReplyFlags ==
    PersistentFlags \cup
    {Flag("uid", "u", "uint32", 0),
     Flag("mailbox", "m", "string", <<>>),
     Flag("body", "b", "string", <<>>),
     Flag("body-file", "", "string", ""),
     Flag("all", "a", "bool", FALSE),
     Flag("no-quote", "", "bool", FALSE)}

ReplyDefaults == Defaults(ReplyFlags)

ReplyRequired == {"uid"}

\* cli.isSelf
isSelf(addr, from, username) ==
    LET a      == ToLower(addr)
        idx    == LastIndex(a, "<")
        endIdx == LastIndex(a, ">")
        email  == IF idx # 0 /\ endIdx # 0 /\ endIdx > idx
                  THEN SubSeq(a, idx + 1, endIdx - 1) ELSE a
    IN  email = ToLower(from) \/ email = ToLower(username)

\* the first reply-all loop: the original Cc addresses that are not the user
ccFromCC(original, smtp) ==
    SelectSeq(original.CC, LAMBDA addr : ~isSelf(addr, smtp.From, smtp.Username))

\* the second reply-all loop: the original To addresses that are neither the
\* user nor the sender nor already in cc
RECURSIVE ccFromTo(_, _, _, _)
ccFromTo(tos, from, smtp, cc) ==
    IF tos = <<>> THEN cc
    ELSE LET addr  == Head(tos)
             found == \E i \in 1..Len(cc) : cc[i] = addr
         IN  IF ~isSelf(addr, smtp.From, smtp.Username) /\ addr # from /\ ~found
             THEN ccFromTo(Tail(tos), from, smtp, Append(cc, addr))
             ELSE ccFromTo(Tail(tos), from, smtp, cc)

\* the Cc list newReplyCmd builds
replyCC(all, original, smtp) ==
    IF all THEN ccFromTo(original.To, original.From, smtp, ccFromCC(original, smtp))
    ELSE <<>>

\* the subject newReplyCmd builds
replySubject(subject) ==
    IF HasPrefix(ToLower(subject), <<"r", "e", ":">>) THEN subject
    ELSE <<"R", "e", ":", " ">> \o subject

\* the quoting loop of FormatQuotedReply
RECURSIVE quoteLines(_)
quoteLines(lines) ==
    IF lines = <<>> THEN <<>>
    ELSE <<">", " ">> \o Head(lines) \o <<NL>> \o quoteLines(Tail(lines))

\* a FormatQuotedReply that does not trim the trailing newlines
FormatQuotedReply_NoTrim(replyBody, originalBody, from, date) ==
    (IF replyBody # <<>> THEN replyBody \o <<NL, NL>> ELSE <<>>)
    \o <<"O", "n", " ">> \o date \o <<",", " ">> \o from
    \o <<" ", "w", "r", "o", "t", "e", ":", NL>>
    \o quoteLines(Split(originalBody))

\* email.FormatQuotedReply
FormatQuotedReply(replyBody, originalBody, from, date) ==
    TrimRight((IF replyBody # <<>> THEN replyBody \o <<NL, NL>> ELSE <<>>)
              \o <<"O", "n", " ">> \o date \o <<",", " ">> \o from
              \o <<" ", "w", "r", "o", "t", "e", ":", NL>>
              \o quoteLines(Split(originalBody)))

\* time.Time.Format("2006-01-02 15:04") of the one date the server reports
FormatDate(date) ==
    <<"2", "0", "2", "4", "-", "0", "1", "-", "1", "5", " ", "1", "0", ":", "3", "0">>

\* the reply body newReplyCmd builds
replyBodyOf(noQuote, body, original) ==
    IF noQuote THEN body
    ELSE FormatQuotedReply(body, original.Body, original.From, FormatDate(original.Date))

\* send options that leave out the References header
replyOpts_NoReferences(cc, original) ==
    (IF Len(cc) > 0 THEN <<WithCC(cc)>> ELSE <<>>)
    \o (IF original.MessageID # <<>> THEN <<WithInReplyTo(original.MessageID)>> ELSE <<>>)

\* the send options newReplyCmd builds
replyOpts(cc, original) ==
    (IF Len(cc) > 0 THEN <<WithCC(cc)>> ELSE <<>>)
    \o (IF original.MessageID # <<>>
        THEN <<WithInReplyTo(original.MessageID), WithReferences(<<original.MessageID>>)>>
        ELSE <<>>)

\* newReplyCmd's RunE up to the fetch of the original message: the error it
\* stops with, or NoErr
replyChecks(f, e) ==
    LET cfg == Load(e)
    IN  IF f["uid"] = 0
        THEN "UID is required (use --uid). Get from 'ghostmail inbox'" \o UseHelp
        ELSE IF ValidateIMAP(cfg) # NoErr
        THEN "IMAP config error: " \o ValidateIMAP(cfg) \o UseHelp
        ELSE IF ValidateSMTP(cfg) # NoErr
        THEN "SMTP config error: " \o ValidateSMTP(cfg) \o UseHelp
        ELSE IF f["body-file"] # "" /\ ~Exists(f["body-file"])
        THEN "failed to read body file: no such file" \o UseHelp
        ELSE IF (IF f["body-file"] # "" THEN Files[f["body-file"]].data ELSE f["body"]) = <<>>
        THEN "reply body is required (use --body or --body-file)" \o UseHelp
        ELSE NoErr

\* what reply prints on success without --json
replyText(f, to, subject, cc, original) ==
    <<Text(<<"Reply sent successfully to", to[1]>>)>>
    \o (IF f["verbose"]
        THEN <<Text(<<"Subject", subject>>), Text(<<"In-Reply-To", original.MessageID>>)>>
             \o (IF Len(cc) > 0 THEN <<Text(<<"CC", cc>>)>> ELSE <<>>)
        ELSE <<>>)

\* newReplyCmd's RunE from the return of sender.Send on: the error or the
\* report of the reply sent
replyReport(f, to, subject, cc, original, made, sent) ==
    IF sent.err # NoErr
    THEN Done(handleError(f["json"], sent.err), made \o sent.calls, <<sent.msg>>, original)
    ELSE IF f["json"]
    THEN Done(Success(<<JSONResponse([message |-> <<"Reply sent to", to>>])>>),
              made \o sent.calls, <<sent.msg>>, original)
    ELSE Done(Success(replyText(f, to, subject, cc, original)), made \o sent.calls,
              <<sent.msg>>, original)

\* newReplyCmd's RunE once the original message is fetched: it builds the
\* recipients, subject, body and options of the reply and sends it
replyBuild(f, smtp, body, original, made, smtpOK) ==
    replyReport(f, <<original.From>>, replySubject(original.Subject),
                replyCC(f["all"], original, smtp), original, made,
                Send(smtp, <<original.From>>, replySubject(original.Subject),
                     replyBodyOf(f["no-quote"], body, original),
                     replyOpts(replyCC(f["all"], original, smtp), original), smtpOK))

\* newReplyCmd's RunE from the return of reader.ReadMessage on
replyFetched(f, smtp, body, made, rm, smtpOK) ==
    IF rm.panic
    THEN Done(GoPanic("regexp: Compile: invalid escape sequence"), made \o rm.calls, <<>>, Nil)
    ELSE IF rm.err # NoErr
    THEN Done(handleError(f["json"],
                          "failed to fetch original message: " \o rm.err \o UseHelp),
              made \o rm.calls, <<>>, Nil)
    ELSE replyBuild(f, smtp, body, rm.result, made \o rm.calls, smtpOK)

\* the RunE function of newReplyCmd
replyRunE(f, e, srv, smtpOK) ==
    LET cfg      == Load(e)
        readBody == IF f["body-file"] # "" THEN <<Call("os.ReadFile", f["body-file"])>> ELSE <<>>
        body     == IF f["body-file"] # "" THEN Files[f["body-file"]].data ELSE f["body"]
    IN  IF replyChecks(f, e) # NoErr
        THEN Done(handleError(f["json"], replyChecks(f, e)),
                  IF f["uid"] # 0 /\ ValidateIMAP(cfg) = NoErr /\ ValidateSMTP(cfg) = NoErr
                  THEN readBody ELSE <<>>,
                  <<>>, Nil)
        ELSE replyFetched(f, cfg.SMTP, body, readBody,
                          ReadMessage(withMailbox(cfg.IMAP, f["mailbox"]), f["uid"], srv),
                          smtpOK)

---------------------------------------------------------------------------
(* internal/cli/config.go *)

ConfigFlags == PersistentFlags

ConfigDefaults == Defaults(ConfigFlags)

\* a mask that also shows the third character
maskPassword_ShowsThree(str) ==
    IF str = <<>> THEN <<>>
    ELSE IF Len(str) <= 4 THEN <<"*", "*", "*", "*">>
    ELSE SubSeq(str, 1, 3) \o <<"*", "*", "*", "*">> \o SubSeq(str, Len(str) - 1, Len(str))

\* cli.maskPassword
maskPassword(str) ==
    IF str = <<>> THEN <<>>
    ELSE IF Len(str) <= 4 THEN <<"*", "*", "*", "*">>
    ELSE SubSeq(str, 1, 2) \o <<"*", "*", "*", "*">> \o SubSeq(str, Len(str) - 1, Len(str))

\* the Run function of newConfigExampleCmd: fmt.Print(configTemplate)
configExampleRun(f) ==
    Done(Success(<<Text("configTemplate")>>), <<>>, <<>>, Nil)

\* the vars table of config check, in order: name, printed value, section
checkVars(e) ==
    <<[name |-> "GHOSTMAIL_SMTP_HOST", value |-> Getenv(e, "GHOSTMAIL_SMTP_HOST"), smtp |-> TRUE],
      [name |-> "GHOSTMAIL_SMTP_PORT", value |-> Getenv(e, "GHOSTMAIL_SMTP_PORT"), smtp |-> TRUE],
      [name |-> "GHOSTMAIL_SMTP_USERNAME", value |-> Getenv(e, "GHOSTMAIL_SMTP_USERNAME"),
       smtp |-> TRUE],
      [name |-> "GHOSTMAIL_SMTP_PASSWORD",
       value |-> maskPassword(Getenv(e, "GHOSTMAIL_SMTP_PASSWORD")), smtp |-> TRUE],
      [name |-> "GHOSTMAIL_SMTP_FROM", value |-> Getenv(e, "GHOSTMAIL_SMTP_FROM"), smtp |-> TRUE],
      [name |-> "GHOSTMAIL_IMAP_HOST", value |-> Getenv(e, "GHOSTMAIL_IMAP_HOST"), smtp |-> FALSE],
      [name |-> "GHOSTMAIL_IMAP_PORT", value |-> Getenv(e, "GHOSTMAIL_IMAP_PORT"), smtp |-> FALSE],
      [name |-> "GHOSTMAIL_IMAP_USERNAME", value |-> Getenv(e, "GHOSTMAIL_IMAP_USERNAME"),
       smtp |-> FALSE],
      [name |-> "GHOSTMAIL_IMAP_PASSWORD",
       value |-> maskPassword(Getenv(e, "GHOSTMAIL_IMAP_PASSWORD")), smtp |-> FALSE],
      [name |-> "GHOSTMAIL_IMAP_MAILBOX", value |-> Getenv(e, "GHOSTMAIL_IMAP_MAILBOX"),
       smtp |-> FALSE]>>

\* one section of config check: a status line per variable of that section
checkLines(e, smtp) ==
    LET vs == SelectSeq(checkVars(e), LAMBDA v : v.smtp = smtp)
    IN  [i \in 1..Len(vs) |->
            Text([status |-> IF vs[i].value = <<>> THEN "missing" ELSE "set",
                  name |-> vs[i].name, value |-> vs[i].value])]

\* smtpOK resp. imapOK of config check
sectionOK(e, smtp) ==
    \A i \in 1..Len(checkVars(e)) :
        checkVars(e)[i].smtp = smtp => checkVars(e)[i].value # <<>>

\* the RunE function of newConfigCheckCmd
configCheckRunE(f, e) ==
    Done(Success(<<Text("Checking configuration...")>>
                 \o <<Text("SMTP Configuration:")>> \o checkLines(e, TRUE)
                 \o <<Text("IMAP Configuration:")>> \o checkLines(e, FALSE)
                 \o (IF sectionOK(e, TRUE) /\ sectionOK(e, FALSE)
                     THEN <<Text("All required configuration is set")>>
                     ELSE <<Text("Some required configuration is missing"),
                            Text("Run 'ghostmail config example' to see an example configuration")>>)),
         <<>>, <<>>, Nil)

---------------------------------------------------------------------------
\* cobra's Execute for one command: flags that failed to parse or required
\* flags that are missing end the run before the handler
CobraRejects(parsed, required) ==
    parsed.err # NoErr \/ RequiredMissing(parsed, required) # {}

Rejected(parsed, required) ==
    IF parsed.err # NoErr
    THEN Done(CobraError(parsed.err), <<>>, <<>>, Nil)
    ELSE Done(CobraError("required flag(s) not set"), <<>>, <<>>, Nil)

---------------------------------------------------------------------------
(* command lines tried *)

JsonArgs == {<<>>, <<Arg("--", "json", TRUE)>>}

ColorArgs == {<<>>, <<Arg("--", "no-color", TRUE)>>}

AddrA == <<"a", "@", "x">>

AddrB == <<"b", "@", "x">>

TextT == <<"T">>

SubjS == <<"S">>

\* --attach lists: files of exactly the maximum size, with at most one
\* small, oversized or missing file among them
AttachArgs ==
    {[i \in 1..n |-> Arg("-", "a", IF i = k THEN p ELSE "exact.bin")] :
        n \in 0..MaxAttachArgs, k \in 0..MaxAttachArgs,
        p \in {"small.txt", "big.bin", "missing.bin"}}

\* every combination of the recipient, subject and body flags without
\* attachments, and every attachment list on an otherwise valid command
SendArgv ==
    {j \o t \o s \o b \o bf \o hf :
        j  \in JsonArgs,
        t  \in {<<>>, <<Arg("-", "t", AddrA)>>},
        s  \in {<<>>, <<Arg("-", "s", <<>>)>>, <<Arg("-", "s", SubjS)>>},
        b  \in {<<>>, <<Arg("-", "b", TextT)>>, <<Arg("-", "m", TextT)>>},
        bf \in {<<>>, <<Arg("--", "body-file", "missing.txt")>>,
                <<Arg("--", "body-file", "body.txt")>>, <<Arg("--", "body-file", "empty.txt")>>},
        hf \in {<<>>, <<Arg("--", "html-file", "missing.html")>>,
                <<Arg("--", "html-file", "page.html")>>}}
    \cup
    {j \o <<Arg("-", "t", AddrA), Arg("-", "s", SubjS), Arg("-", "m", TextT)>> \o a :
        j \in JsonArgs, a \in AttachArgs}

SendEnvs == {EnvFull, EnvWithout({"GHOSTMAIL_SMTP_PASSWORD"})}

InboxArgv ==
    {j \o c \o l \o u \o m :
        j \in JsonArgs, c \in ColorArgs,
        l \in {<<>>} \cup {<<Arg("-", "l", n)>> : n \in {-1, 0, 1, 2}},
        u \in {<<>>, <<Arg("-", "u", TRUE)>>},
        m \in {<<>>, <<Arg("-", "m", <<"A", "r", "c", "h">>)>>}}

ImapEnvs == {EnvFull, EnvWithout({"GHOSTMAIL_IMAP_HOST"})}

AddressA == [PersonalName |-> <<>>, MailboxName |-> <<"a">>, HostName |-> <<"x">>]

AddressB == [PersonalName |-> <<>>, MailboxName |-> <<"b">>, HostName |-> <<"x">>]

\* the user's own address (GHOSTMAIL_SMTP_FROM) with a display name
AddressMe == [PersonalName |-> <<"M">>, MailboxName |-> <<"m">>, HostName |-> <<"x">>]

TheDate == "2024-01-15T10:30:00Z"

\* UIDs grow with the position in the mailbox but are not consecutive
UidAt(i) == 3 * i + 1

\* a message as the IMAP library delivers it
ServerMessage(uid, seq, flags, subject, to, cc, section) ==
    [Uid |-> uid, SeqNum |-> seq, Flags |-> flags,
     Envelope |-> [Subject |-> subject, Date |-> TheDate, From |-> <<AddressA>>,
                   To |-> to, Cc |-> cc, Bcc |-> <<>>],
     Section |-> section]

\* mailboxes of up to MaxMsgs messages, each seen or unseen
Mailboxes ==
    {[i \in 1..n |-> ServerMessage(UidAt(i), i, IF i \in seen THEN {"\\Seen"} ELSE {},
                                   <<"x">>, <<AddressMe>>, <<>>, Nil)] :
        n \in 0..MaxMsgs, seen \in SUBSET (1..MaxMsgs)}

IMAPSteps == {"dial", "login", "select", "search", "fetch"}

InboxWorlds ==
    {[failAt |-> "none", mailbox |-> mb] : mb \in Mailboxes}
    \cup {[failAt |-> st, mailbox |-> mb] :
             st \in IMAPSteps, mb \in {b \in Mailboxes : Len(b) = MaxMsgs}}

\* plain-text bodies of up to MaxBodyLen characters
Bodies == SeqsUpTo({"x", NL}, MaxBodyLen)

MsgID == <<"<", "i", ">">>

\* a MIME part as mr.NextPart and io.ReadAll(part.Body) deliver it: data is
\* what ReadAll returned and readErr whether it returned an error with it
PlainPart(data) ==
    [header |-> "inline", ctype |-> "text/plain", data |-> data, readErr |-> FALSE]

HTMLPart(data) ==
    [header |-> "inline", ctype |-> "text/html", data |-> data, readErr |-> FALSE]

AttachmentPart(data) ==
    [header |-> "attachment", ctype |-> "text/plain", data |-> data, readErr |-> FALSE]

\* an inline text/plain part whose body cannot be read: ReadAll returns the
\* bytes read so far and an error
UnreadablePart(data) ==
    [header |-> "inline", ctype |-> "text/plain", data |-> data, readErr |-> TRUE]

\* a part for which mr.NextPart returns an error other than io.EOF
NextPartError == [header |-> "error", ctype |-> "", data |-> <<>>, readErr |-> FALSE]

ReadError == "unexpected EOF"

\* a literal the MIME reader parses
Section(messageID, parts) ==
    [readerOK |-> TRUE, raw |-> <<>>, rawErr |-> NoErr, messageID |-> messageID,
     parts |-> parts]

\* a literal the MIME reader cannot parse; the raw read of the fallback
\* returns raw, or fails with rawErr
RawSection(raw, rawErr) ==
    [readerOK |-> FALSE, raw |-> raw, rawErr |-> rawErr, messageID |-> <<>>,
     parts |-> <<>>]

\* body sections: a plain-text body with or without a Message-ID, an
\* HTML-only message, a message with both, one whose only text is an
\* attachment, messages with a second plain-text part (empty, empty after
\* an HTML part, or after an attachment), messages with a part that cannot
\* be read, and literals the MIME reader cannot parse, with and without a
\* failing raw read
Sections ==
    {Section(id, <<PlainPart(b)>>) : id \in {<<>>, MsgID}, b \in Bodies}
    \cup {Section(MsgID, <<HTMLPart(<<"<", "p", ">", "x">>)>>),
          Section(MsgID, <<PlainPart(<<"x">>), HTMLPart(<<"<", "p", ">", "x">>)>>),
          Section(MsgID, <<AttachmentPart(<<"x">>)>>),
          Section(MsgID, <<PlainPart(<<"x">>), PlainPart(<<>>)>>),
          Section(MsgID, <<PlainPart(<<"x">>), HTMLPart(<<"<", "p", ">", "y">>), PlainPart(<<>>)>>),
          Section(MsgID, <<PlainPart(<<"x">>), AttachmentPart(<<"y">>), PlainPart(<<"z">>)>>),
          Section(MsgID, <<UnreadablePart(<<>>)>>),
          Section(MsgID, <<NextPartError>>),
          Section(MsgID, <<NextPartError, PlainPart(<<"x">>)>>),
          RawSection(<<"x">>, NoErr),
          RawSection(<<>>, ReadError),
          Nil}

\* To and Cc lists with at most MaxRcpt addresses together
Recipients ==
    {rc \in SeqsUpTo({AddressA, AddressB, AddressMe}, MaxRcpt)
          \X SeqsUpTo({AddressA, AddressB, AddressMe}, MaxRcpt) :
        Len(rc[1]) + Len(rc[2]) <= MaxRcpt}

\* the UID the read and reply command lines name: the second message's
TheUid == UidAt(2)

\* the message with UID TheUid: every recipient list with a one-line body,
\* and every body section and subject with one recipient
OriginalMessages ==
    {ServerMessage(TheUid, 2, {}, <<"x">>, rc[1], rc[2], Section(MsgID, <<PlainPart(<<"x">>)>>)) :
        rc \in Recipients}
    \cup {ServerMessage(TheUid, 2, {"\\Seen"}, subj, <<AddressMe>>, <<>>, sec) :
             subj \in {<<"x">>, <<"R", "E", ":", "x">>}, sec \in Sections}

ReadWorlds ==
    {[failAt |-> "none", mailbox |-> <<m>>] : m \in OriginalMessages}
    \cup {[failAt |-> st, mailbox |-> <<>>] : st \in {"none", "dial", "login", "select", "fetch"}}

UidArgs == {<<>>, <<Arg("-", "u", 0)>>, <<Arg("-", "u", TheUid)>>}

ReadArgv ==
    {j \o c \o u \o r \o m :
        j \in JsonArgs, c \in ColorArgs, u \in UidArgs,
        r \in {<<>>, <<Arg("--", "raw", TRUE)>>},
        m \in {<<>>, <<Arg("-", "m", <<"A", "r", "c", "h">>)>>}}

ReplyArgv ==
    {j \o u \o b \o a \o q :
        j \in JsonArgs, u \in UidArgs,
        b \in {<<>>, <<Arg("-", "b", TextT)>>, <<Arg("--", "body-file", "body.txt")>>,
               <<Arg("--", "body-file", "empty.txt")>>,
               <<Arg("--", "body-file", "missing.txt")>>},
        a \in {<<>>, <<Arg("-", "a", TRUE)>>, <<Arg("--", "all", TRUE), Arg("-", "v", TRUE)>>},
        q \in {<<>>, <<Arg("--", "no-quote", TRUE)>>}}

ReplyEnvs ==
    {EnvFull, EnvWithout({"GHOSTMAIL_IMAP_HOST"}), EnvWithout({"GHOSTMAIL_SMTP_PASSWORD"}),
     EnvWithout({"GHOSTMAIL_SMTP_FROM"})}

\* passwords of up to MaxPwLen characters, asterisks among them
Passwords == SeqsUpTo({"a", "*"}, MaxPwLen) \ {<<>>}

\* every set of unset variables, and every password for either account
ConfigEnvs ==
    {EnvWithout(unset) : unset \in SUBSET EnvVars}
    \cup {[EnvFull EXCEPT ![v] = pw] :
             v \in {"GHOSTMAIL_SMTP_PASSWORD", "GHOSTMAIL_IMAP_PASSWORD"}, pw \in Passwords}

---------------------------------------------------------------------------
(* the process *)

ProcessStart ==
    /\ pc = "start"
    /\ cmd = "none"
    /\ jsonOutput = FALSE
    /\ noColor = FALSE
    /\ verbose = FALSE
    /\ args = <<>>
    /\ env = EnvEmpty
    /\ stdout = <<>>
    /\ stderr = <<>>
    /\ exitCode = -1
    /\ calls = <<>>
    /\ outbox = <<>>
    /\ server = Nil
    /\ fetched = Nil

\* no fetch is in progress
FetchIdle ==
    /\ plan = Nil
    /\ messagesCh = <<>>
    /\ closed = FALSE
    /\ doneCh = <<>>
    /\ producer = "idle"
    /\ consumer = "idle"
    /\ nsent = 0
    /\ received = <<>>
    /\ doneReads = 0
    /\ returned = Nil

\* no call of createPreview under observation
PreviewIdle == previewCall = Nil

Init == ProcessStart /\ FetchIdle /\ PreviewIdle

\* the process ran command name with command line argv in environment e,
\* the outside world answered world, and the run ended as r
Ran(name, argv, e, parsed, world, r) ==
    /\ pc' = "exited"
    /\ cmd' = name
    /\ args' = argv
    /\ env' = e
    /\ jsonOutput' = (parsed.err = NoErr /\ parsed.values["json"])
    /\ noColor' = (parsed.err = NoErr /\ parsed.values["no-color"])
    /\ verbose' = (parsed.err = NoErr /\ parsed.values["verbose"])
    /\ stdout' = r.stdout
    /\ stderr' = r.stderr
    /\ exitCode' = r.exitCode
    /\ calls' = r.calls
    /\ outbox' = r.outbox
    /\ fetched' = r.fetched
    /\ server' = world
    /\ UNCHANGED <<fetchVars, previewCall>>

\* ghostmail send ...
SendCmd ==
    /\ pc = "start"
    /\ \E argv \in SendArgv, e \in SendEnvs :
          LET parsed == Parse(SendFlags, SendDefaults, argv)
          IN  IF CobraRejects(parsed, SendRequired)
              THEN Ran("send", argv, e, parsed, Nil, Rejected(parsed, SendRequired))
              ELSE \E smtpOK \in BOOLEAN :
                     LET r == sendRunE(parsed.values, e, smtpOK)
                     IN  Ran("send", argv, e, parsed,
                             IF r.outbox = <<>> THEN Nil ELSE [smtpOK |-> smtpOK], r)

\* ghostmail inbox ...
InboxCmd ==
    /\ pc = "start"
    /\ \E argv \in InboxArgv, e \in ImapEnvs :
          LET parsed == Parse(InboxFlags, InboxDefaults, argv)
          IN  IF ValidateIMAP(Load(e)) # NoErr
              THEN Ran("inbox", argv, e, parsed, Nil, inboxRunE(parsed.values, e, Nil))
              ELSE \E srv \in InboxWorlds :
                     Ran("inbox", argv, e, parsed, srv, inboxRunE(parsed.values, e, srv))

\* ghostmail read ...
ReadCmd ==
    /\ pc = "start"
    /\ \E argv \in ReadArgv, e \in ImapEnvs :
          LET parsed == Parse(ReadFlags, ReadDefaults, argv)
          IN  IF CobraRejects(parsed, ReadRequired)
              THEN Ran("read", argv, e, parsed, Nil, Rejected(parsed, ReadRequired))
              ELSE IF parsed.values["uid"] = 0 \/ ValidateIMAP(Load(e)) # NoErr
              THEN Ran("read", argv, e, parsed, Nil, readRunE(parsed.values, e, Nil))
              ELSE \E srv \in ReadWorlds :
                     Ran("read", argv, e, parsed, srv, readRunE(parsed.values, e, srv))

\* ghostmail reply ...
ReplyCmd ==
    /\ pc = "start"
    /\ \E argv \in ReplyArgv, e \in ReplyEnvs :
          LET parsed == Parse(ReplyFlags, ReplyDefaults, argv)
          IN  IF CobraRejects(parsed, ReplyRequired)
              THEN Ran("reply", argv, e, parsed, Nil, Rejected(parsed, ReplyRequired))
              ELSE IF replyChecks(parsed.values, e) # NoErr
              THEN Ran("reply", argv, e, parsed, Nil, replyRunE(parsed.values, e, Nil, TRUE))
              ELSE \E srv \in ReadWorlds :
                     LET rm == ReadMessage(Load(e).IMAP, parsed.values["uid"], srv)
                     IN  IF rm.panic \/ rm.err # NoErr
                         THEN Ran("reply", argv, e, parsed, srv,
                                  replyRunE(parsed.values, e, srv, TRUE))
                         ELSE \E smtpOK \in BOOLEAN :
                                Ran("reply", argv, e, parsed, [srv EXCEPT !.failAt = "none"] @@
                                    [smtpOK |-> smtpOK],
                                    replyRunE(parsed.values, e, srv, smtpOK))

\* ghostmail config example
ConfigExampleCmd ==
    /\ pc = "start"
    /\ \E argv \in JsonArgs :
          LET parsed == Parse(ConfigFlags, ConfigDefaults, argv)
          IN  Ran("config example", argv, EnvFull, parsed, Nil, configExampleRun(parsed.values))

\* ghostmail config check
ConfigCheckCmd ==
    /\ pc = "start"
    /\ \E argv \in JsonArgs, e \in ConfigEnvs :
          LET parsed == Parse(ConfigFlags, ConfigDefaults, argv)
          IN  Ran("config check", argv, e, parsed, Nil, configCheckRunE(parsed.values, e))

Next ==
    \/ SendCmd
    \/ InboxCmd
    \/ ReadCmd
    \/ ReplyCmd
    \/ ConfigExampleCmd
    \/ ConfigCheckCmd

Spec == Init /\ [][Next]_vars

---------------------------------------------------------------------------
(* the fetch-and-drain of ListMessages and ReadMessage: the function makes  *)
(* the channels, starts a goroutine that runs c.UidFetch and sends its      *)
(* error on done, ranges over messages and then receives from done          *)

\* make(chan *imap.Message, 10) in ListMessages
listBuffer == 10

\* make(chan *imap.Message, 1) in ReadMessage
readBuffer == 1

\* make(chan error, 1)
doneBuffer == 1

\* the fetches tried: either buffer size, 0..MaxFetch messages delivered
\* before UidFetch returns, with or without an error
Plans ==
    [buffer : {listBuffer, readBuffer}, count : 0..MaxFetch, err : {NoErr, IMAPError}]

\* the channels are made and the goroutine is started
FetchInit ==
    /\ ProcessStart
    /\ plan \in Plans
    /\ messagesCh = <<>>
    /\ closed = FALSE
    /\ doneCh = <<>>
    /\ producer = "fetch"
    /\ consumer = "range"
    /\ nsent = 0
    /\ received = <<>>
    /\ doneReads = 0
    /\ returned = Nil
    /\ PreviewIdle

\* a send on a buffered channel goes through when the buffer has room
CanSend(buffer, size) == Len(buffer) < size

\* UidFetch sends the next message on messages
UidFetchSends ==
    /\ producer = "fetch"
    /\ nsent < plan.count
    /\ CanSend(messagesCh, plan.buffer)
    /\ messagesCh' = Append(messagesCh, nsent + 1)
    /\ nsent' = nsent + 1
    /\ UNCHANGED <<cliVars, previewCall, plan, closed, doneCh, producer, consumer, received, doneReads,
                   returned>>

\* UidFetch closes messages and returns
UidFetchReturns ==
    /\ producer = "fetch"
    /\ nsent = plan.count
    /\ closed' = TRUE
    /\ producer' = "send done"
    /\ UNCHANGED <<cliVars, previewCall, plan, messagesCh, doneCh, consumer, nsent, received, doneReads,
                   returned>>

\* done <- c.UidFetch(...): the goroutine sends the error and ends
SendsDone ==
    /\ producer = "send done"
    /\ CanSend(doneCh, doneBuffer)
    /\ doneCh' = Append(doneCh, plan.err)
    /\ producer' = "exited"
    /\ UNCHANGED <<cliVars, previewCall, plan, messagesCh, closed, consumer, nsent, received, doneReads,
                   returned>>

\* for msg := range messages: one iteration
RangeReceives ==
    /\ consumer = "range"
    /\ messagesCh # <<>>
    /\ received' = Append(received, Head(messagesCh))
    /\ messagesCh' = Tail(messagesCh)
    /\ UNCHANGED <<cliVars, previewCall, plan, closed, doneCh, producer, consumer, nsent, doneReads,
                   returned>>

\* a range loop that ends as soon as the channel is closed
RangeDone_DropsBuffer == closed

\* the range loop ends a closed channel once its buffer is empty
RangeDone == closed /\ messagesCh = <<>>

RangeEnds ==
    /\ consumer = "range"
    /\ RangeDone
    /\ consumer' = "receive done"
    /\ UNCHANGED <<cliVars, previewCall, plan, messagesCh, closed, doneCh, producer, nsent, received,
                   doneReads, returned>>

\* if err := <-done; err != nil { return nil, err }; return result, nil
ReceivesDone ==
    /\ consumer = "receive done"
    /\ doneCh # <<>>
    /\ doneCh' = Tail(doneCh)
    /\ doneReads' = doneReads + 1
    /\ returned' = IF Head(doneCh) # NoErr
                   THEN [result |-> Nil, err |-> "failed to fetch messages: " \o Head(doneCh)]
                   ELSE [result |-> received, err |-> NoErr]
    /\ consumer' = "returned"
    /\ UNCHANGED <<cliVars, previewCall, plan, messagesCh, closed, producer, nsent, received>>

Goroutine == UidFetchSends \/ UidFetchReturns \/ SendsDone

Caller == RangeReceives \/ RangeEnds \/ ReceivesDone

FetchNext == Goroutine \/ Caller

\* the Go scheduler runs a goroutine that can take a step
FetchSpec ==
    /\ FetchInit
    /\ [][FetchNext]_vars
    /\ WF_vars(Goroutine)
    /\ WF_vars(Caller)

-----------------------------------------------------------------------------
(* Reader.createPreview as a function of its arguments: ReadMessage only    *)
(* calls it with maxLen = 200; here it is called on every body of up to     *)
(* MaxPreviewBody characters with every maxLen up to MaxPreviewLen.         *)

PreviewBodies == SeqsUpTo({"x", " ", NL}, MaxPreviewBody)

PreviewInit ==
    /\ ProcessStart
    /\ FetchIdle
    /\ previewCall \in [body : PreviewBodies, maxLen : 0..MaxPreviewLen, result : {Nil}]

\* the call r.createPreview(body, maxLen)
CallCreatePreview ==
    /\ previewCall # Nil
    /\ previewCall.result = Nil
    /\ previewCall' = [previewCall EXCEPT
                          !.result = createPreview(previewCall.body, previewCall.maxLen)]
    /\ UNCHANGED <<cliVars, fetchVars>>

PreviewNext == CallCreatePreview

PreviewSpec == PreviewInit /\ [][PreviewNext]_vars

---------------------------------------------------------------------------
(* Reading a finished run *)

Exited == pc = "exited"

\* the values given on the command line for the flags with these names
ArgValues(argv, names) ==
    LET given == SelectSeq(argv, LAMBDA a : a.name \in names)
    IN  [i \in 1..Len(given) |-> given[i].value]

\* the last value given for a flag, or its default
LastValue(argv, names, default) ==
    LET vs == ArgValues(argv, names)
    IN  IF vs = <<>> THEN default ELSE vs[Len(vs)]

\* the command line without its global switches
OwnArgs(argv) == SelectSeq(argv, LAMBDA a : a.name \notin {"json", "no-color", "v", "verbose"})

Dialed == \E i \in 1..Len(calls) : calls[i].op = "gomail.DialAndSend"

\* cobra turned the command line down before the handler ran
UsageError == stderr # <<>> /\ stderr[1] = Text("Error: required flag(s) not set")

---------------------------------------------------------------------------
(* C1: send, inbox, read and reply run with --json report a failure of the  *)
(* handler (configuration, validation, IMAP or SMTP error) as one JSON      *)
(* object {success: false, error: <message>} on standard output.            *)
C1_JsonErrorOnStdout ==
    (/\ Exited
     /\ cmd \in {"send", "inbox", "read", "reply"}
     /\ jsonOutput
     /\ exitCode = 1
     /\ ~UsageError)
    => /\ Len(stdout) = 1
       /\ stdout[1].fmt = "json"
       /\ stdout[1].success = FALSE
       /\ stdout[1].error # ""

(* C2: with --json, everything any command writes to standard output is    *)
(* JSON.                                                                    *)
C2_JsonOnlyOnStdout ==
    (Exited /\ jsonOutput) => \A i \in 1..Len(stdout) : stdout[i].fmt = "json"

(* C3: `send -t A -s S -b TEXT` with a valid SMTP configuration hands       *)
(* exactly one message to the dialer, addressed to A, with the plain-text   *)
(* body TEXT and no Bcc header.                                             *)
C3_ShortBIsBody ==
    (/\ Exited
     /\ cmd = "send"
     /\ env = EnvFull
     /\ args = <<Arg("-", "t", AddrA), Arg("-", "s", SubjS), Arg("-", "b", TextT)>>)
    => /\ Len(outbox) = 1
       /\ outbox[1].headers["To"] = <<AddrA>>
       /\ outbox[1].parts = <<[ctype |-> "text/plain", content |-> TextT]>>
       /\ "Bcc" \notin DOMAIN outbox[1].headers

\* the --attach list of a send command line
AttachOf(argv) == ArgValues(argv, {"a", "attach"})

OverLimits(atts) ==
    \/ Len(atts) > 5
    \/ \E i \in 1..Len(atts) : ~Exists(atts[i]) \/ Files[atts[i]].size > 10 * 1024 * 1024

\* the command line is valid apart from its attachments
PlainSend(argv) ==
    SelectSeq(OwnArgs(argv), LAMBDA a : a.name \notin {"a", "attach"})
        = <<Arg("-", "t", AddrA), Arg("-", "s", SubjS), Arg("-", "m", TextT)>>

(* C4: send with more than 5 attachments, an inaccessible attachment or an  *)
(* attachment larger than 10MB fails without calling the dialer; up to 5    *)
(* attachments of at most 10MB (exactly 10MB included) are handed over.     *)
C4_AttachmentLimits ==
    (Exited /\ cmd = "send")
    => /\ OverLimits(AttachOf(args)) => (exitCode = 1 /\ ~Dialed /\ outbox = <<>>)
       /\ (~OverLimits(AttachOf(args)) /\ PlainSend(args) /\ env = EnvFull)
             => (Dialed /\ Len(outbox) = 1 /\ outbox[1].attachments = AttachOf(args))

\* five attachments, the last one a byte over the limit: all five were
\* looked at, the run failed and nothing was dialed
C4_Witness ==
    /\ Exited /\ cmd = "send"
    /\ AttachOf(args) = <<"exact.bin", "exact.bin", "exact.bin", "exact.bin", "big.bin">>
    /\ Cardinality({i \in 1..Len(calls) : calls[i].op = "os.Stat"}) = 5
    /\ exitCode = 1
    /\ ~Dialed

\* the body and the HTML body of a send command line once the files named
\* by --body-file and --html-file were read
GivenBody(argv) ==
    LET file == LastValue(argv, {"body-file"}, "")
    IN  IF file # "" THEN Files[file].data ELSE LastValue(argv, {"m", "body"}, <<>>)

GivenHTML(argv) ==
    LET file == LastValue(argv, {"html-file"}, "")
    IN  IF file # "" THEN Files[file].data ELSE <<>>

FilesReadable(argv) ==
    /\ LastValue(argv, {"body-file"}, "") \in DOMAIN Files \cup {""}
    /\ LastValue(argv, {"html-file"}, "") \in DOMAIN Files \cup {""}

Deliverable(argv) ==
    /\ FilesReadable(argv)
    /\ Len(ArgValues(argv, {"t", "to"})) >= 1
    /\ LastValue(argv, {"s", "subject"}, <<>>) # <<>>
    /\ (GivenBody(argv) # <<>> \/ GivenHTML(argv) # <<>>)

(* C5: send dials only with at least one recipient, a non-empty subject and *)
(* a non-empty text or HTML body (after the files were read); otherwise it  *)
(* fails without dialing.  Sender.Send with no recipient returns an error   *)
(* without dialing.                                                         *)
C5_RequiredFields ==
    (Exited /\ cmd = "send")
    => /\ Dialed => Deliverable(args)
       /\ ~Deliverable(args) => (exitCode = 1 /\ ~Dialed /\ outbox = <<>>)
       /\ \A ok \in BOOLEAN :
             LET r == Send(Load(env).SMTP, <<>>, SubjS, TextT, <<>>, ok)
             IN  r.err # NoErr /\ r.calls = <<>>

\* recipient, subject and --body given, but --body-file names an empty
\* file: the body is empty after the file was read and the run fails
C5_Witness ==
    /\ Exited /\ cmd = "send" /\ env = EnvFull
    /\ OwnArgs(args) = <<Arg("-", "t", AddrA), Arg("-", "s", SubjS), Arg("-", "m", TextT),
                         Arg("--", "body-file", "empty.txt")>>
    /\ exitCode = 1
    /\ ~Dialed


---------------------------------------------------------------------------
(* Reading a finished inbox run *)

\* inbox ran to its output: server is the IMAP server it talked to
InboxListed == Exited /\ cmd = "inbox" /\ server # Nil /\ exitCode = 0

Limit == LastValue(args, {"l", "limit"}, 20)

Unread == ArgValues(args, {"u", "unread"}) # <<>>

\* the UIDs of the mailbox on the server, in mailbox order, leaving out the
\* messages flagged \Seen when unread is set
MatchingUIDs(unread) ==
    LET matching == SelectSeq(server.mailbox, LAMBDA m : ~(unread /\ "\\Seen" \in m.Flags))
    IN  [i \in 1..Len(matching) |-> matching[i].Uid]

\* the UIDs of the messages ListMessages returned
ListedUIDs == [i \in 1..Len(fetched) |-> fetched[i].UID]

LastN(s, n) == SubSeq(s, Len(s) - n + 1, Len(s))

(* C6: inbox --limit L with L > 0 lists exactly the last min(L, N) of the N *)
(* UIDs the search matches, never more than L messages; with L = 0 it lists *)
(* all N.                                                                   *)
C6_LimitKeepsLast ==
    InboxListed
    => LET uids == MatchingUIDs(Unread)
       IN  /\ Limit > 0 => /\ ListedUIDs = LastN(uids, Min(Limit, Len(uids)))
                           /\ Len(fetched) <= Limit
           /\ Limit = 0 => ListedUIDs = uids

\* --limit 2 on a mailbox of three messages: the second and third are listed
C6_Witness ==
    /\ InboxListed
    /\ Limit = 2
    /\ ~Unread
    /\ Len(server.mailbox) = 3
    /\ ListedUIDs = <<UidAt(2), UidAt(3)>>

\* the search criteria of the UID SEARCH commands the run sent
Searches ==
    LET searches == SelectSeq(calls, LAMBDA c : c.op = "imap.UidSearch")
    IN  [i \in 1..Len(searches) |-> searches[i].arg]

(* C7: inbox --unread searches for messages without \Seen and lists none    *)
(* that the server holds as \Seen; without --unread the search is           *)
(* unrestricted and seen and unseen messages alike are listed.              *)
C7_UnreadOnly ==
    InboxListed
    => /\ Unread => /\ \A i \in 1..Len(Searches) : Searches[i].WithoutSeen
                    /\ \A i \in 1..Len(fetched) : "\\Seen" \notin fetched[i].Flags
                    /\ \A i \in 1..Len(fetched) :
                          \A j \in 1..Len(server.mailbox) :
                             server.mailbox[j].Uid = fetched[i].UID
                                => "\\Seen" \notin server.mailbox[j].Flags
       /\ ~Unread => /\ \A i \in 1..Len(Searches) : ~Searches[i].WithoutSeen
                     /\ Limit = 0 => ListedUIDs = MatchingUIDs(FALSE)

\* --unread on a mailbox whose first and third message are seen: only the
\* second is listed
C7_Witness ==
    /\ InboxListed
    /\ Unread
    /\ Limit = 0
    /\ Len(server.mailbox) = 3
    /\ "\\Seen" \in server.mailbox[1].Flags
    /\ "\\Seen" \notin server.mailbox[2].Flags
    /\ "\\Seen" \in server.mailbox[3].Flags
    /\ ListedUIDs = <<UidAt(2)>>

---------------------------------------------------------------------------
(* Reading a finished reply run *)

\* reply handed one message to the dialer; fetched is the original message
ReplySent == Exited /\ cmd = "reply" /\ Len(outbox) = 1

ReplyAll == ArgValues(args, {"a", "all"}) # <<>>

NoQuote == ArgValues(args, {"no-quote"}) # <<>>

\* the header of the reply, or no values when it is not set
HeaderOf(key) ==
    IF key \in DOMAIN outbox[1].headers THEN outbox[1].headers[key] ELSE <<>>

NoDuplicates(s) == \A i, j \in 1..Len(s) : s[i] = s[j] => i = j

(* C8: the reply built by reply --all names no address twice among its To   *)
(* and Cc recipients.                                                       *)
C8_ReplyAllNoDuplicates ==
    (ReplySent /\ ReplyAll) => NoDuplicates(HeaderOf("To") \o HeaderOf("Cc"))

(* C9: the reply to an original with a non-empty Message-ID carries         *)
(* In-Reply-To equal to it and References equal to the list of exactly it;  *)
(* with an empty Message-ID it carries neither header; the two headers are  *)
(* set together or not at all.                                              *)
C9_ThreadingHeaders ==
    ReplySent
    => LET h == DOMAIN outbox[1].headers
       IN  /\ fetched.MessageID # <<>>
                 => /\ "In-Reply-To" \in h /\ "References" \in h
                    /\ outbox[1].headers["In-Reply-To"] = fetched.MessageID
                    /\ outbox[1].headers["References"] = <<fetched.MessageID>>
           /\ fetched.MessageID = <<>> => ("In-Reply-To" \notin h /\ "References" \notin h)
           /\ ("In-Reply-To" \in h) <=> ("References" \in h)

\* a reply to a message whose body section carries a Message-ID
C9_Witness ==
    /\ ReplySent
    /\ exitCode = 0
    /\ fetched.MessageID = MsgID
    /\ server.mailbox[1].Section.messageID = MsgID
    /\ HeaderOf("References") = <<MsgID>>

\* the text the user gave with --body or --body-file
ReplyText ==
    LET file == LastValue(args, {"body-file"}, "")
    IN  IF file # "" THEN Files[file].data ELSE LastValue(args, {"b", "body"}, <<>>)

\* the body of the reply handed to the dialer
SentBody == outbox[1].parts[1].content

\* what precedes the quoted lines: the user's text, a blank line and the
\* attribution line
QuoteHead ==
    ReplyText \o <<NL, NL>>
    \o <<"O", "n", " ", "2", "0", "2", "4", "-", "0", "1", "-", "1", "5", " ",
         "1", "0", ":", "3", "0", ",", " ">>
    \o fetched.From \o <<" ", "w", "r", "o", "t", "e", ":", NL>>

NewlinesIn(s) == Cardinality({i \in 1..Len(s) : s[i] = NL})

(* C10: without --no-quote the reply body is the user's text, a blank line, *)
(* the line "On <date>, <sender> wrote:" and the lines of the original body *)
(* in order, each prefixed with "> ", with no trailing newline and as many  *)
(* quoted lines as the original body has lines; with --no-quote it is the   *)
(* user's text.                                                             *)
C10_QuotedBody ==
    ReplySent
    => IF NoQuote THEN SentBody = ReplyText
       ELSE /\ Len(SentBody) > Len(QuoteHead)
            /\ SubSeq(SentBody, 1, Len(QuoteHead)) = QuoteHead
            /\ SentBody[Len(SentBody)] # NL
            /\ LET quoted == Split(SubSeq(SentBody, Len(QuoteHead) + 1, Len(SentBody)))
               IN  /\ Len(quoted) = NewlinesIn(fetched.Body) + 1
                   /\ \A i \in 1..Len(quoted) : HasPrefix(quoted[i], <<">", " ">>)
                   /\ Join([i \in 1..Len(quoted) |-> SubSeq(quoted[i], 3, Len(quoted[i]))],
                           <<NL>>) = fetched.Body

\* a quoting reply to an original of two lines, the second one empty
C10_Witness ==
    /\ ReplySent
    /\ ~NoQuote
    /\ fetched.Body = <<"x", NL>>
    /\ SentBody = QuoteHead \o <<">", " ", "x", NL, ">", " ">>


---------------------------------------------------------------------------
(* Reading a finished config check run *)

ConfigChecked == Exited /\ cmd = "config check"

\* the verdict closes the report when every variable is set
ReportsAllSet == stdout[Len(stdout)] = Text("All required configuration is set")

(* C11: config check prints "All required configuration is set" exactly     *)
(* when ValidateSMTP and ValidateIMAP both accept the configuration loaded  *)
(* from the same environment; variables with a default are not required.   *)
C11_CheckAgreesWithValidate ==
    ConfigChecked
    => (ReportsAllSet
           <=> (ValidateSMTP(Load(env)) = NoErr /\ ValidateIMAP(Load(env)) = NoErr))


PasswordVars == {"GHOSTMAIL_SMTP_PASSWORD", "GHOSTMAIL_IMAP_PASSWORD"}

\* the status lines of the report: five after each of the two headings
StatusLines == SubSeq(stdout, 3, 7) \o SubSeq(stdout, 9, 13)

\* the value config check printed after NAME=
PrintedValue(name) ==
    LET i == CHOOSE k \in 1..Len(StatusLines) : StatusLines[k].text.name = name
    IN  StatusLines[i].text.value

\* what a mask may depend on: the first two and last two characters of a
\* password of more than four characters, and nothing of a shorter one
Visible(pw) ==
    IF Len(pw) <= 4 THEN <<>> ELSE <<pw[1], pw[2], pw[Len(pw) - 1], pw[Len(pw)]>>

\* a password that reads like a mask
MaskShaped(pw) ==
    \/ pw = <<"*", "*", "*", "*">>
    \/ Len(pw) = 8 /\ SubSeq(pw, 3, 6) = <<"*", "*", "*", "*">>

(* C12 as stated: for every non-empty password, the value config check      *)
(* prints for it is maskPassword(value) and never equals the password.      *)
C12_MaskNeverEqualsPassword ==
    ConfigChecked
    => \A v \in PasswordVars :
          env[v] # <<>> => /\ PrintedValue(v) = maskPassword(env[v])
                           /\ PrintedValue(v) # env[v]

(* C12 amended: for every non-empty password, the value config check prints *)
(* for it is maskPassword(value); it is the same for all passwords that     *)
(* agree on what may be visible (the first two and last two characters of a *)
(* password longer than four, nothing of a shorter one), and it equals the  *)
(* password only when the password itself reads like a mask.                *)
C12_MaskHidesPassword ==
    ConfigChecked
    => \A v \in PasswordVars :
          env[v] # <<>>
             => /\ PrintedValue(v) = maskPassword(env[v])
                /\ \A pw \in Passwords :
                      Visible(pw) = Visible(env[v]) => maskPassword(pw) = PrintedValue(v)
                /\ PrintedValue(v) = env[v] => MaskShaped(env[v])

\* a five-character SMTP password whose middle character stays hidden
C12_Witness ==
    /\ ConfigChecked
    /\ env["GHOSTMAIL_SMTP_PASSWORD"] = <<"a", "a", "*", "a", "a">>
    /\ PrintedValue("GHOSTMAIL_SMTP_PASSWORD") = <<"a", "a", "*", "*", "*", "*", "a", "a">>


---------------------------------------------------------------------------
(* Reading the library calls of a finished run *)

\* how often the run made the library call op
Attempts(op) == Cardinality({i \in 1..Len(calls) : calls[i].op = op})

LibraryOps ==
    {"imap.Dial", "imap.Login", "imap.Select", "imap.UidSearch", "imap.UidFetch",
     "gomail.DialAndSend"}

\* the library call that fails at a step of the IMAP dialogue
StepOp(step) ==
    CASE step = "dial"   -> "imap.Dial"
      [] step = "login"  -> "imap.Login"
      [] step = "select" -> "imap.Select"
      [] step = "search" -> "imap.UidSearch"
      [] step = "fetch"  -> "imap.UidFetch"

\* the run talked to an IMAP server resp. an SMTP server
TalkedIMAP == server # Nil /\ "failAt" \in DOMAIN server

TalkedSMTP == server # Nil /\ "smtpOK" \in DOMAIN server

\* the run reached the step at which the IMAP server fails
IMAPFailed ==
    TalkedIMAP /\ server.failAt # "none" /\ Attempts(StepOp(server.failAt)) > 0

\* after the failing call the run only logs out
OnlyLogoutAfter(op) ==
    \A i, j \in 1..Len(calls) : (calls[i].op = op /\ i < j) => calls[j].op = "imap.Logout"

(* C13: no library call (dial, login, select, search, fetch, dial-and-send) *)
(* is made more than once in an operation, and when one of them fails the   *)
(* operation returns an error and no message data: nothing is retried and   *)
(* nothing partial is returned.                                             *)
C13_NoRetryErrorsSurfaced ==
    Exited
    => /\ \A op \in LibraryOps : Attempts(op) <= 1
       /\ IMAPFailed
             => /\ exitCode = 1 /\ stderr # <<>> /\ stdout = <<>>
                /\ fetched = Nil /\ outbox = <<>>
                /\ OnlyLogoutAfter(StepOp(server.failAt))
                /\ ListMessages(Load(env).IMAP, 0, FALSE, server).err # NoErr
                      => ListMessages(Load(env).IMAP, 0, FALSE, server).result = Nil
                /\ ReadMessage(Load(env).IMAP, TheUid, server).err # NoErr
                      => ReadMessage(Load(env).IMAP, TheUid, server).result = Nil
       /\ (TalkedSMTP /\ ~server.smtpOK)
             => /\ exitCode = 1 /\ stderr # <<>> /\ stdout = <<>>
                /\ Attempts("gomail.DialAndSend") = 1
                /\ calls[Len(calls)].op = "gomail.DialAndSend"

\* an inbox run whose UID SEARCH fails: one search, no fetch, exit status 1
C13_Witness ==
    /\ Exited /\ cmd = "inbox"
    /\ IMAPFailed /\ server.failAt = "search"
    /\ Attempts("imap.UidSearch") = 1
    /\ Attempts("imap.UidFetch") = 0
    /\ exitCode = 1


---------------------------------------------------------------------------
(* Reading a finished read run *)

\* read fetched the one message of the mailbox from a server that answers
ReadFetched ==
    /\ Exited /\ cmd = "read"
    /\ TalkedIMAP /\ server.failAt = "none"
    /\ Len(server.mailbox) = 1
    /\ Attempts("imap.UidFetch") = 1

\* the body section the server delivered
TheSection == server.mailbox[1].Section

\* the contents of the inline parts of a content type, in message order
InlineData(section, ctype) ==
    LET ps == SelectSeq(section.parts, LAMBDA p : p.header = "inline" /\ p.ctype = ctype)
    IN  [i \in 1..Len(ps) |-> ps[i].data]

Parsed(section) == section # Nil /\ section.readerOK

\* the only inline text of the message is HTML
HTMLOnly(section) ==
    /\ Parsed(section)
    /\ InlineData(section, "text/plain") = <<>>
    /\ InlineData(section, "text/html") # <<>>
    /\ InlineData(section, "text/html")[1] # <<>>

TagFree(s) == \A i \in 1..Len(s) : s[i] \notin {"<", ">"}

(* C14: stripHTML returns normally for every HTML string, so reading a      *)
(* message whose only inline part is text/html succeeds and returns a body  *)
(* without tags, without newlines or runs of whitespace and without leading *)
(* or trailing whitespace.                                                  *)
C14_HTMLStripped ==
    (ReadFetched /\ HTMLOnly(TheSection))
    => /\ ~stripHTML(InlineData(TheSection, "text/html")[1]).panic
       /\ exitCode = 0
       /\ fetched # Nil
       /\ TagFree(fetched.Body)
       /\ \A i \in 1..Len(fetched.Body) : fetched.Body[i] # NL
       /\ \A i \in 1..(Len(fetched.Body) - 1) :
             ~(IsSpace(fetched.Body[i]) /\ IsSpace(fetched.Body[i + 1]))
       /\ TrimSpace(fetched.Body) = fetched.Body


---------------------------------------------------------------------------
(* Reading a fetch in progress *)

\* the messages UidFetch sends during the fetch, in the order it sends them
Produced == [i \in 1..plan.count |-> i]

\* the goroutine is about to send on done and would have to wait
DoneSendBlocks == producer = "send done" /\ ~CanSend(doneCh, doneBuffer)

\* nothing is lost or reordered on the way, the send on done finds room,
\* done is read once and only after the loop saw the closed, empty channel
DrainsInOrder ==
    /\ received \o messagesCh = SubSeq(Produced, 1, nsent)
    /\ ~DoneSendBlocks
    /\ doneReads <= 1
    /\ consumer \in {"receive done", "returned"} => (closed /\ messagesCh = <<>>)
    /\ consumer = "returned" => (doneReads = 1 /\ received = Produced)

\* the operation has returned and the goroutine has ended
FetchOver == consumer = "returned" /\ producer = "exited"

(* C15: for any number of fetched messages, more than the channel buffer    *)
(* (10 in ListMessages, 1 in ReadMessage) included, the range loop receives *)
(* every message the fetch sent, in order; the goroutine's send on done     *)
(* never waits; done is read exactly once, after the messages channel is    *)
(* drained; and the operation returns.                                      *)
C15_FetchDrainReturns == []DrainsInOrder /\ <>[]FetchOver

\* a fetch of more messages than the buffer of ListMessages holds came back
\* with all of them
C15_Witness ==
    /\ plan # Nil
    /\ plan.buffer = listBuffer
    /\ plan.count > listBuffer
    /\ FetchOver
    /\ returned.err = NoErr
    /\ Len(returned.result) = plan.count


\* the non-empty elements of a list of contents
NonEmpty(list) == SelectSeq(list, LAMBDA d : d # <<>>)

Among(x, list) == \E i \in 1..Len(list) : list[i] = x

(* C16: when the message has an inline text/plain part with non-empty       *)
(* content, the read succeeds and the body is the content of an inline      *)
(* text/plain part, whatever the order and number of parts, and never comes *)
(* from an HTML part or an attachment; with neither a plain-text nor an     *)
(* HTML part the body is empty.                                             *)
C16_PlainPreferred ==
    (ReadFetched /\ Parsed(TheSection))
    => /\ NonEmpty(InlineData(TheSection, "text/plain")) # <<>>
             => /\ exitCode = 0
                /\ fetched # Nil
                /\ Among(fetched.Body, InlineData(TheSection, "text/plain"))
       /\ (/\ NonEmpty(InlineData(TheSection, "text/plain")) = <<>>
           /\ NonEmpty(InlineData(TheSection, "text/html")) = <<>>)
             => /\ exitCode = 0
                /\ fetched # Nil
                /\ fetched.Body = <<>>


-----------------------------------------------------------------------------
\* extracting the body failed: the raw read of an unparsable literal returned
\* an error, or a part could not be fetched or read
ExtractionFailed(section) ==
    /\ section # Nil
    /\ \/ ~section.readerOK /\ section.rawErr # NoErr
       \/ \E i \in 1..Len(section.parts) :
             section.parts[i].readErr \/ section.parts[i].header = "error"

\* the read run ended without an error: exit status 0, nothing on stderr
ReadSucceeded == exitCode = 0 /\ stderr = <<>>

(* C17: when extracting the body of the fetched message fails, the read     *)
(* command does not end successfully: the failure reaches the caller.       *)
C17_ExtractFailureSurfaced ==
    (ReadFetched /\ ExtractionFailed(TheSection)) => ~ReadSucceeded


-----------------------------------------------------------------------------
\* createPreview was called and returned or panicked
PreviewMade == previewCall # Nil /\ previewCall.result # Nil

\* the non-empty trimmed lines of a body joined by single spaces
FullText(body) ==
    LET lines == Split(body)
        trimmed == [i \in 1..Len(lines) |-> TrimSpace(lines[i])]
    IN  Join(SelectSeq(trimmed, LAMBDA l : l # <<>>), <<" ">>)

Ellipsis == <<".", ".", ".">>

EndsWithEllipsis(text) ==
    Len(text) >= 3 /\ SubSeq(text, Len(text) - 2, Len(text)) = Ellipsis

\* the preview text of a result: the result without the ellipsis appended
\* to it for a body longer than maxLen
PreviewText(call) ==
    IF Len(call.body) > call.maxLen
    THEN SubSeq(call.result.text, 1, Len(call.result.text) - 3)
    ELSE call.result.text

IsPrefix(p, s) == Len(p) <= Len(s) /\ SubSeq(s, 1, Len(p)) = p

(* C18: createPreview(body, maxLen) with maxLen >= 0 never slices out of    *)
(* range; its result is at most maxLen characters of the non-empty trimmed  *)
(* lines joined by single spaces, followed by "..." exactly when the body   *)
(* is longer than maxLen; so it is never longer than maxLen + 3 and a body  *)
(* of at most maxLen characters is rendered whole.                          *)
C18_PreviewBounded ==
    PreviewMade
    => /\ ~previewCall.result.panic
       /\ Len(previewCall.body) > previewCall.maxLen
             => EndsWithEllipsis(previewCall.result.text)
       /\ Len(PreviewText(previewCall)) <= previewCall.maxLen
       /\ IsPrefix(PreviewText(previewCall), FullText(previewCall.body))
       /\ Len(previewCall.result.text) <= previewCall.maxLen + 3
       /\ Len(previewCall.body) <= previewCall.maxLen
             => previewCall.result.text = FullText(previewCall.body)

\* a call that cut a line: the body is longer than maxLen and the preview
\* text is the first maxLen characters of a longer text
C18_Witness ==
    /\ PreviewMade
    /\ ~previewCall.result.panic
    /\ previewCall.maxLen > 0
    /\ Len(previewCall.body) > previewCall.maxLen
    /\ Len(PreviewText(previewCall)) = previewCall.maxLen
    /\ PreviewText(previewCall) # FullText(previewCall.body)

=============================================================================
